---- MODULE Spec2Model ----
(***************************************************************************)
(* Model of the hollow-cylinder configurator (main.ts): the reactive       *)
(* cells of the target dimensions, the animated quantities, the frame loop *)
(* with its reload scheduler, the export listener, and the pointer gesture *)
(* state machine (static / will-move / moving); and of the dimensions of   *)
(* the solid the geometry kernel builds (model/manifold.ts).               *)
(*                                                                         *)
(* Time is in milliseconds.  A rotation value r of the program is held as  *)
(* the integer r * One, so that the pixel-to-rotation scaling              *)
(* 2 / canvasWidth stays exact for the canvas widths of the model.         *)
(***************************************************************************)
EXTENDS Integers, Sequences, FiniteSets, TLC

VARIABLES
    now,                \* wall clock (performance.now / rAF timestamp), ms
    modelDimensions,    \* the four target cells (Dyn.latest)
    animations,         \* the three animated dimensions
    rotation,           \* the animated rotation
    partPositioning,    \* gesture state (tagged record)
    tracking,           \* window move/up listeners attached
    canvasWidth,        \* renderer.canvasWidth
    reloadModelNeeded,
    modelLoadStarted,   \* None or the timestamp of the latest start
    centerCameraNeeded,
    loads,              \* outstanding reloadModel calls
    mesh,               \* geometry on the scene mesh: which request made it
    callCount,          \* reloadModel calls started so far
    lastStarted,        \* arguments of the latest reloadModel call
    exportCount,        \* tmfLoader.load requests issued so far
    lastExport,         \* the latest tmfLoader.load request
    tmfPending,         \* an export kernel call is outstanding
    tmf,                \* file waiting in the loader, or NoFile
    link,               \* file installed on the download link, or NoFile
    objectURLs,         \* object URLs created and not revoked
    cylinder,           \* the hollowCylinder call SpecKernel follows: its
                        \* arguments, and the solid once it has returned
    \* history variables (not program state)
    stuckSeen,          \* a frame saw a call outstanding for more than 100ms
    anyRejected,        \* some reloadModel call has failed
    changeDuringLoad,   \* the latest target change came during a call
    callsSinceChange,   \* reloadModel calls started since that change
    targetCalls,        \* hollowCylinder calls since that change whose
                        \* arguments are the target tuple
    gestures,           \* pointer-downs that began a gesture
    tapRun,             \* releases so far, if all were taps; else -1
    draggedTap          \* some tap passed through "moving" off its start

progVars == <<modelDimensions, animations, reloadModelNeeded,
              modelLoadStarted, centerCameraNeeded, loads, mesh, callCount,
              lastStarted, exportCount, lastExport, tmfPending, tmf, link,
              objectURLs>>

histVars == <<stuckSeen, anyRejected, changeDuringLoad, callsSinceChange,
              targetCalls>>

progVarsButLoads == <<modelDimensions, animations, reloadModelNeeded,
                      modelLoadStarted, centerCameraNeeded, mesh, callCount,
                      lastStarted, exportCount, lastExport, tmfPending, tmf,
                      link, objectURLs>>

schedVars == <<progVars, histVars>>

gestureVars == <<partPositioning, tracking, gestures, tapRun, draggedTap>>

vars == <<now, rotation, canvasWidth, cylinder, schedVars, gestureVars>>

\* undefined, for modelLoadStarted (timestamps are never negative)
None == -1

-----------------------------------------------------------------------------
(* Program constants *)

START_HEIGHT == 50
MIN_HEIGHT == 10
MAX_HEIGHT == 200
START_OUTER_RADIUS == 25
MIN_OUTER_RADIUS == 5
MAX_OUTER_RADIUS == 100
START_WALL_THICKNESS == 3
MIN_WALL_THICKNESS == 1
MAX_WALL_THICKNESS == 20
START_CLOSED_BOTTOM == TRUE

StuckLoadTimeout == 100     \* nowMillis - modelLoadStarted > 100
TapTime == 300              \* elapsed < 0.3 (seconds)
TapSlop == 15               \* delta < 15 (pixels)

\* Duration of an eased animation of an Animated Quantity.
AnimDuration == 300

-----------------------------------------------------------------------------
(* Bounds of the model *)

MaxTime == 600          \* no frame is scheduled once the clock reached this
MaxChanges == 2         \* accepted sends on the target cells
MaxCalls == 2           \* reloadModel calls started after the first one
HalfWidth == 8          \* the canvas is 2 or 4 times this wide
MaxGestures == 2        \* pointer-downs that begin a gesture

FrameSteps == {100, 200}
CanvasWidths == {2 * HalfWidth, 4 * HalfWidth}
One == 2 * HalfWidth    \* the rotation value 1
Pixels == {0, 15, 2 * HalfWidth, 4 * HalfWidth}

\* sampled pixel colors [r, g, b, a]: outside the part, on the part, and a
\* colored pixel with alpha 0
Colors == {<<0, 0, 0, 0>>, <<40, 40, 40, 255>>, <<40, 40, 40, 0>>}

\* texts typed into the controls
\* arguments of the hollowCylinder calls of SpecKernel
KernelHeights == {10, 25, 50}
KernelRadii == {5, 12, 25, 100}
KernelWalls == {1, 5, 12, 20, 30}

HeightInputs == {"abc", "50", "80"}
OuterRadiusInputs == {"", "30"}
WallThicknessInputs == {"x", "5"}

\* texts typed into a number field: not a number, below, inside and above
\* the ranges
Texts == {"abc", "", "-7", "0", "12", "50", "999"}

-----------------------------------------------------------------------------
(* Animated Quantity *)

NewAnimate(v) ==
    [current |-> v, from |-> v, to |-> v, start |-> 0, active |-> FALSE]

\* startAnimationTo(target) / startAnimationTo(target, immediate) at time t
StartAnimationTo(a, target, isImmediate, t) ==
    IF isImmediate
    THEN [current |-> target, from |-> target, to |-> target,
          start |-> t, active |-> FALSE]
    ELSE [current |-> a.current, from |-> a.current, to |-> target,
          start |-> t, active |-> TRUE]

AnimValue(a, t) ==
    IF t - a.start >= AnimDuration
    THEN a.to
    ELSE a.from + ((a.to - a.from) * (t - a.start)) \div AnimDuration

\* update(): the quantity after the tick at time t
AnimUpdate(a, t) ==
    IF a.active
    THEN [a EXCEPT !.current = AnimValue(a, t),
                   !.active = (t - a.start < AnimDuration)]
    ELSE a

\* update()'s return value: whether current changed this tick
AnimUpdated(a, t) == AnimUpdate(a, t).current # a.current

-----------------------------------------------------------------------------
(* Target cells, export listener *)

Dims == {"height", "outerRadius", "wallThickness"}

Max(a, b) == IF a >= b THEN a ELSE b
Min(a, b) == IF a <= b THEN a ELSE b

\* Math.max(lo, Math.min(value, hi))
Clamp(value, lo, hi) == Max(lo, Min(value, hi))

\* Number.prototype.toFixed(0) of an integer-valued number
ToFixed0(n) == ToString(n)

\* mutant: the radius is written where the diameter belongs
Filename_Radius(h, r, w, closed) ==
    "cylinder-" \o ToFixed0(r) \o "x" \o ToFixed0(h) \o "-wall"
        \o ToFixed0(w) \o "-" \o (IF closed THEN "closed" ELSE "open")
        \o ".3mf"

\* the filename built by the Dyn.sequence listener
Filename(h, r, w, closed) ==
    "cylinder-" \o ToFixed0(r * 2) \o "x" \o ToFixed0(h) \o "-wall"
        \o ToFixed0(w) \o "-" \o (IF closed THEN "closed" ELSE "open")
        \o ".3mf"

\* the arguments of a hollowCylinder call
KernelArgs(h, r, w, closed) ==
    [height |-> h, outerRadius |-> r, wallThickness |-> w,
     closedBottom |-> closed]

\* the target tuple of the cells md
TargetArgs(md) ==
    KernelArgs(md.height, md.outerRadius, md.wallThickness, md.closedBottom)

\* no file: the loader is empty, the link has no generated file yet
NoFile == [args |-> KernelArgs(0, 0, 0, FALSE), filename |-> ""]

\* the geometry the mesh is constructed with (no kernel call made it)
Placeholder == [seq |-> 0, args |-> KernelArgs(0, 0, 0, FALSE)]

\* what the Dyn.sequence listener hands to tmfLoader.load for the tuple
\* [h, r, w, closed]
ExportRequest(h, r, w, closed) ==
    [args |-> KernelArgs(h, r, w, closed),
     filename |-> Filename(h, r, w, closed)]

\* modelDimensions[dim].send(v): an equal value is dropped; otherwise the cell
\* is updated and its listeners run: the Dyn.sequence listener (export) and,
\* for a numeric dimension, the animation listener.
Send(dim, v) ==
    IF v = modelDimensions[dim]
    THEN UNCHANGED schedVars
    ELSE LET md == [modelDimensions EXCEPT ![dim] = v] IN
         /\ exportCount <= MaxChanges
         /\ modelDimensions' = md
         /\ lastExport' = ExportRequest(md.height, md.outerRadius,
                                        md.wallThickness, md.closedBottom)
         /\ exportCount' = exportCount + 1
         /\ tmfPending' = TRUE
         /\ animations' =
               IF dim \in Dims
               THEN [animations EXCEPT
                        ![dim] = StartAnimationTo(animations[dim], v, FALSE, now)]
               ELSE animations
         /\ changeDuringLoad' = (loads # {})
         /\ callsSinceChange' = 0
         /\ targetCalls' = 1
         /\ UNCHANGED <<reloadModelNeeded, modelLoadStarted,
                        centerCameraNeeded, loads, mesh, callCount,
                        lastStarted, tmf, link, objectURLs, stuckSeen,
                        anyRejected>>

\* mutant: Number(text) in the place of parseInt(text): the empty text is 0
ParseInt_Number(text) ==
    CASE text = "" -> [isNaN |-> FALSE, n |-> 0]
      [] text = "-7" -> [isNaN |-> FALSE, n |-> -7]
      [] text = "0" -> [isNaN |-> FALSE, n |-> 0]
      [] text = "5" -> [isNaN |-> FALSE, n |-> 5]
      [] text = "12" -> [isNaN |-> FALSE, n |-> 12]
      [] text = "30" -> [isNaN |-> FALSE, n |-> 30]
      [] text = "50" -> [isNaN |-> FALSE, n |-> 50]
      [] text = "80" -> [isNaN |-> FALSE, n |-> 80]
      [] text = "999" -> [isNaN |-> FALSE, n |-> 999]
      [] OTHER -> [isNaN |-> TRUE, n |-> 0]

\* parseInt on the texts of the model: the number, or NaN
ParseInt(text) ==
    CASE text = "-7" -> [isNaN |-> FALSE, n |-> -7]
      [] text = "0" -> [isNaN |-> FALSE, n |-> 0]
      [] text = "12" -> [isNaN |-> FALSE, n |-> 12]
      [] text = "999" -> [isNaN |-> FALSE, n |-> 999]
      [] text = "5" -> [isNaN |-> FALSE, n |-> 5]
      [] text = "30" -> [isNaN |-> FALSE, n |-> 30]
      [] text = "50" -> [isNaN |-> FALSE, n |-> 50]
      [] text = "80" -> [isNaN |-> FALSE, n |-> 80]
      [] OTHER -> [isNaN |-> TRUE, n |-> 0]

\* "change"/"input" handler of a numeric control: parseInt, NaN test,
\* clamp, send
NumericInput(dim, text, lo, hi) ==
    /\ LET value == ParseInt(text) IN
       IF value.isNaN
       THEN UNCHANGED schedVars
       ELSE Send(dim, Clamp(value.n, lo, hi))
    /\ UNCHANGED <<now, rotation, canvasWidth, cylinder>>
    /\ UNCHANGED gestureVars

HeightInput ==
    \E text \in HeightInputs :
        NumericInput("height", text, MIN_HEIGHT, MAX_HEIGHT)

OuterRadiusInput ==
    \E text \in OuterRadiusInputs :
        NumericInput("outerRadius", text, MIN_OUTER_RADIUS, MAX_OUTER_RADIUS)

WallThicknessInput ==
    \E text \in WallThicknessInputs :
        NumericInput("wallThickness", text, MIN_WALL_THICKNESS,
                     MAX_WALL_THICKNESS)

\* the "change" handlers of the three number fields, which take any text
HeightChange ==
    \E text \in Texts :
        NumericInput("height", text, MIN_HEIGHT, MAX_HEIGHT)

OuterRadiusChange ==
    \E text \in Texts :
        NumericInput("outerRadius", text, MIN_OUTER_RADIUS, MAX_OUTER_RADIUS)

WallThicknessChange ==
    \E text \in Texts :
        NumericInput("wallThickness", text, MIN_WALL_THICKNESS,
                     MAX_WALL_THICKNESS)

\* "change" handler of the closed-bottom checkbox
ClosedBottomInput ==
    /\ \E checked \in BOOLEAN : Send("closedBottom", checked)
    /\ UNCHANGED <<now, rotation, canvasWidth, cylinder>>
    /\ UNCHANGED gestureVars

\* the export kernel call resolves: the loader holds the file of the latest
\* request until the frame loop takes it
ExportResolve ==
    /\ tmfPending
    /\ tmfPending' = FALSE
    /\ tmf' = lastExport
    /\ UNCHANGED <<now, rotation, canvasWidth, cylinder, modelDimensions, animations,
                   reloadModelNeeded, modelLoadStarted, centerCameraNeeded,
                   loads, mesh, callCount, lastStarted, exportCount,
                   lastExport, link, objectURLs>>
    /\ UNCHANGED histVars
    /\ UNCHANGED gestureVars

-----------------------------------------------------------------------------
(* Geometry kernel (model/manifold.ts).  A solid is held as the two extruded *)
(* circles hollowCylinder subtracts from one another.                       *)

\* mutant: the inner radius is the plain difference
innerRadius_Unclamped(outerRadius, wallThickness) ==
    outerRadius - wallThickness

\* Math.max(0, outerRadius - wallThickness)
innerRadius(outerRadius, wallThickness) ==
    Max(0, outerRadius - wallThickness)

innerHeight(height, wallThickness, closedBottom) ==
    IF closedBottom THEN height - wallThickness ELSE height

innerStartZ(wallThickness, closedBottom) ==
    IF closedBottom THEN wallThickness ELSE 0

\* hollowCylinder with the side pattern "normal", the only one main.ts asks
\* for: circle(outerRadius).extrude(height) minus
\* circle(innerRadius).extrude(innerHeight).translate([0, 0, innerStartZ])
hollowCylinder(height, outerRadius, wallThickness, closedBottom) ==
    [outer |-> [radius |-> outerRadius, height |-> height, z |-> 0],
     inner |-> [radius |-> innerRadius(outerRadius, wallThickness),
                height |-> innerHeight(height, wallThickness, closedBottom),
                z |-> innerStartZ(wallThickness, closedBottom)]]

\* a call with the arguments a that has not returned yet
Called(a) ==
    [args |-> a, returned |-> FALSE,
     solid |-> [outer |-> [radius |-> 0, height |-> 0, z |-> 0],
                inner |-> [radius |-> 0, height |-> 0, z |-> 0]]]

\* the same call after it returned
Returned(a) ==
    [args |-> a, returned |-> TRUE,
     solid |-> hollowCylinder(a.height, a.outerRadius, a.wallThickness,
                              a.closedBottom)]

\* the call of cylinder returns its solid
HollowCylinderReturns ==
    /\ ~cylinder.returned
    /\ cylinder' = Returned(cylinder.args)
    /\ UNCHANGED <<now, rotation, canvasWidth>>
    /\ UNCHANGED schedVars
    /\ UNCHANGED gestureVars

-----------------------------------------------------------------------------
(* Frame loop and reload scheduler *)

\* mutant: the scheduler does not look at modelLoadStarted
ReloadModelNow_NoGuard(needed, loadStarted, nowMillis) == needed

\* mutant: the scheduler does not look at reloadModelNeeded
ReloadModelNow_IgnoreNeeded(needed, loadStarted, nowMillis) ==
    \/ loadStarted = None
    \/ nowMillis - loadStarted > StuckLoadTimeout

\* mutant: a call that seems stuck is waited for all the same
ReloadModelNow_NoEscape(needed, loadStarted, nowMillis) ==
    needed /\ loadStarted = None

\* reloadModelNow, given the flag after the animation updates
ReloadModelNow(needed, loadStarted, nowMillis) ==
    /\ needed
    /\ \/ loadStarted = None
       \/ nowMillis - loadStarted > StuckLoadTimeout

\* mutant: the loop hands the target values to reloadModel
ReloadArgs_Targets(anims, md) == TargetArgs(md)

\* the arguments the loop hands to reloadModel: the animated values and the
\* latest closedBottom
ReloadArgs(anims, md) ==
    KernelArgs(anims["height"].current, anims["outerRadius"].current,
               anims["wallThickness"].current, md.closedBottom)

\* loop(nowMillis), called dt ms after the previous frame
Loop ==
    \E dt \in FrameSteps :
      LET nowMillis == now + dt
          dimensionsUpdated ==
              \E d \in Dims : AnimUpdated(animations[d], nowMillis)
          needed == reloadModelNeeded \/ dimensionsUpdated
          anims == [d \in Dims |-> AnimUpdate(animations[d], nowMillis)]
          args == ReloadArgs(anims, modelDimensions)
      IN
      /\ now < MaxTime
      /\ now' = nowMillis
      /\ tmf' = NoFile
      /\ link' = IF tmf # NoFile THEN tmf ELSE link
      /\ objectURLs' = IF tmf # NoFile THEN objectURLs + 1 ELSE objectURLs
      /\ rotation' = AnimUpdate(rotation, nowMillis)
      /\ animations' = anims
      /\ stuckSeen' = (stuckSeen \/
             \E c \in loads : nowMillis - c.startedAt > StuckLoadTimeout)
      /\ IF ReloadModelNow(needed, modelLoadStarted, nowMillis)
         THEN /\ callCount <= MaxCalls
              /\ modelLoadStarted' = nowMillis
              /\ reloadModelNeeded' = FALSE
              /\ loads' = loads \cup
                    {[seq |-> callCount + 1, args |-> args,
                      startedAt |-> nowMillis]}
              /\ callCount' = callCount + 1
              /\ lastStarted' = args
              /\ callsSinceChange' = callsSinceChange + 1
              /\ targetCalls' =
                    IF args = TargetArgs(modelDimensions)
                    THEN targetCalls + 1 ELSE targetCalls
         ELSE /\ reloadModelNeeded' = needed
              /\ UNCHANGED <<modelLoadStarted, loads, callCount, lastStarted,
                             callsSinceChange, targetCalls>>
      /\ centerCameraNeeded' = FALSE
      /\ UNCHANGED <<modelDimensions, canvasWidth, cylinder, mesh, exportCount,
                     lastExport, tmfPending, anyRejected, changeDuringLoad>>
      /\ UNCHANGED gestureVars

\* hollowCylinder resolves inside reloadModel: the geometry is put on the
\* mesh, then the .then callback of the loop runs
KernelResolve ==
    \E c \in loads :
      /\ loads' = loads \ {c}
      /\ mesh' = [seq |-> c.seq, args |-> c.args]
      /\ modelLoadStarted' = None
      /\ centerCameraNeeded' = TRUE
      /\ UNCHANGED <<now, rotation, canvasWidth, cylinder, modelDimensions, animations,
                     reloadModelNeeded, callCount, lastStarted, exportCount,
                     lastExport, tmfPending, tmf, link, objectURLs>>
      /\ UNCHANGED histVars
      /\ UNCHANGED gestureVars

\* mutant: a failed call leaves a geometry on the mesh all the same
KernelReject_AppliesGeometry ==
    \E c \in loads :
      /\ loads' = loads \ {c}
      /\ mesh' = [seq |-> c.seq, args |-> c.args]
      /\ anyRejected' = TRUE
      /\ UNCHANGED <<now, rotation, canvasWidth, cylinder, modelDimensions, animations,
                     reloadModelNeeded, modelLoadStarted, centerCameraNeeded,
                     callCount, lastStarted, exportCount, lastExport,
                     tmfPending, tmf, link, objectURLs>>
      /\ UNCHANGED <<stuckSeen, changeDuringLoad, callsSinceChange,
                     targetCalls>>
      /\ UNCHANGED gestureVars

\* hollowCylinder rejects inside reloadModel: nothing after the await runs
KernelReject ==
    \E c \in loads :
      /\ loads' = loads \ {c}
      /\ anyRejected' = TRUE
      /\ UNCHANGED <<now, rotation, canvasWidth, cylinder>>
      /\ UNCHANGED progVarsButLoads
      /\ UNCHANGED <<stuckSeen, changeDuringLoad, callsSinceChange,
                     targetCalls>>
      /\ UNCHANGED gestureVars

-----------------------------------------------------------------------------
(* Rotation gesture.  startPos holds the x coordinate only: y is stored by  *)
(* the program and never read.                                              *)

\* the % operator of JavaScript: the result has the sign of the dividend
Rem(a, m) == IF a >= 0 THEN a % m ELSE -((-a) % m)

\* bound(v, [lo, hi])
bound(v, lo, hi) == Rem(v - lo, hi - lo) + lo

\* mutant: one rotation unit per canvas width (dwdx = 1 / canvasWidth)
DragValue_UnitPerWidth(val, width) ==
    ((val.x - val.startPos) * One) \div width - val.startRot

\* v of the partPositioning listener for a "moving" value:
\* (val.x - val.startPos[0]) * (2 / canvasWidth) - val.startRot
DragValue(val, width) ==
    ((val.x - val.startPos) * 2 * One) \div width - val.startRot

\* the live target the listener pushes for a "moving" value
LiveTarget(val, width) == bound(DragValue(val, width), -One, One)

\* mutant: the live target is pushed with the eased animation as well
PositionListener_AlwaysEased(val, rot, width, t) ==
    IF val.tag = "static"
    THEN StartAnimationTo(rot, val.position * One, FALSE, t)
    ELSE IF val.tag = "moving"
    THEN StartAnimationTo(rot, LiveTarget(val, width), FALSE, t)
    ELSE rot

\* the partPositioning listener: the rotation after val was sent at time t
PositionListener(val, rot, width, t) ==
    IF val.tag = "static"
    THEN StartAnimationTo(rot, val.position * One, FALSE, t)
    ELSE IF val.tag = "moving"
    THEN StartAnimationTo(rot, LiveTarget(val, width), TRUE, t)
    ELSE rot

Static(p) == [tag |-> "static", position |-> p]

\* mutant: the toggle cycles through the three positions
toggle_Cycle(p) ==
    CASE p.position = -1 -> Static(0)
      [] p.position = 0 -> Static(1)
      [] p.position = 1 -> Static(-1)

\* mutant: from the negative back view the toggle goes to the other back view
toggle_Mirror(p) ==
    CASE p.position = -1 -> Static(1)
      [] p.position = 0 -> Static(1)
      [] p.position = 1 -> Static(0)

\* toggle static positioning between front & back
toggle(p) ==
    CASE p.position = -1 -> Static(0)
      [] p.position = 0 -> Static(1)
      [] p.position = 1 -> Static(0)

\* Math.round(n / d) for d > 0: floor(n / d + 1/2)
MathRound(n, d) == (2 * n + d) \div (2 * d)

\* snap part to one of the static positions
Snap(current) ==
    LET rounded == MathRound(bound(current, -One, One), One) IN
    IF rounded <= -1 THEN Static(-1)
    ELSE IF 1 <= rounded THEN Static(1)
    ELSE Static(0)

\* mutant: a short time or a short distance is enough
IsJerk_Either(elapsed, delta) == elapsed < TapTime \/ delta < TapSlop

\* "the move was too short": elapsed < 0.3 && delta < 15
IsJerk(elapsed, delta) == elapsed < TapTime /\ delta < TapSlop

Abs(n) == IF n < 0 THEN -n ELSE n

\* mutant: a pointer-up without a pointer-move before it is not handled
Release_Unfinished(was, current, t) ==
    IF was.tag = "will-move" THEN was
    ELSE IF was.tag = "static" THEN toggle(was)
    ELSE IF IsJerk(t - was.clock, Abs(was.x - was.startPos))
         THEN toggle(was.lastStatic)
         ELSE Snap(current)

\* the update function of forgetMouse
Release(was, current, t) ==
    IF was.tag = "will-move" THEN toggle(was.lastStatic)
    ELSE IF was.tag = "static" THEN toggle(was)
    ELSE IF IsJerk(t - was.clock, Abs(was.x - was.startPos))
         THEN toggle(was.lastStatic)
         ELSE Snap(current)

\* a tap as the gesture contract words it: released less than 300ms after
\* the pointer-down, less than 15px away from it (history only)
IsTapGesture(was, t) ==
    /\ was.tag \in {"will-move", "moving"}
    /\ t - was.clock < 300
    /\ was.tag = "moving" => Abs(was.x - was.startPos) < 15

\* the update function of readyMouse, for a pointer-down at pixel x while the
\* rotation is at current and the clock shows t
Ready(val, x, current, t) ==
    IF val.tag \in {"will-move", "moving"}
    THEN val
    ELSE [tag |-> "will-move",
          startRot |-> current,
          startPos |-> x,
          clock |-> t,
          lastStatic |-> val]

\* mutant: every pointer-move starts the drag anew from where the pointer is
Track_Restart(val, x) ==
    IF val.tag \in {"will-move", "moving"}
    THEN [tag |-> "moving",
          x |-> x,
          startPos |-> x,
          startRot |-> val.startRot,
          lastStatic |-> val.lastStatic,
          clock |-> val.clock]
    ELSE val

\* the update function of trackMouse, for a pointer-move to pixel x
Track(val, x) ==
    IF val.tag \in {"will-move", "moving"}
    THEN [tag |-> "moving",
          x |-> x,
          startPos |-> val.startPos,
          startRot |-> val.startRot,
          lastStatic |-> val.lastStatic,
          clock |-> val.clock]
    ELSE val

\* mutant: the test is the wrong way round
IsMiss_Inverted(color) ==
    ~(color[1] = 0 /\ color[2] = 0 /\ color[3] = 0 /\ color[4] = 0)

\* the hit test of readyMouse on the sampled pixel [r, g, b, a]
IsMiss(color) ==
    color[1] = 0 /\ color[2] = 0 /\ color[3] = 0 /\ color[4] = 0

\* readyMouse for a pointer-down at pixel x whose sampled color is color
ReadyMouseAt(x, color) ==
    /\ IF IsMiss(color)
       THEN UNCHANGED <<partPositioning, tracking, gestures>>
       ELSE IF partPositioning.tag \in {"will-move", "moving"}
       THEN /\ partPositioning' =
                  Ready(partPositioning, x, rotation.current, now)
            /\ tracking' = TRUE
            /\ UNCHANGED gestures
       ELSE /\ gestures < MaxGestures
            /\ partPositioning' =
                  Ready(partPositioning, x, rotation.current, now)
            /\ tracking' = TRUE
            /\ gestures' = gestures + 1
    /\ UNCHANGED <<now, rotation, canvasWidth, cylinder, tapRun, draggedTap>>
    /\ UNCHANGED schedVars

\* readyMouse: mousedown / touchstart on the canvas
ReadyMouse == \E x \in Pixels, color \in Colors : ReadyMouseAt(x, color)

\* trackMouse: mousemove / touchmove on the window at pixel x
TrackMouse ==
    \E x \in Pixels :
      /\ tracking
      /\ partPositioning' = Track(partPositioning, x)
      /\ rotation' = PositionListener(partPositioning', rotation,
                                      canvasWidth, now)
      /\ UNCHANGED <<now, tracking, gestures, canvasWidth, cylinder, tapRun,
                     draggedTap>>
      /\ UNCHANGED schedVars

\* forgetMouse: mouseup / touchend on the window
ForgetMouse ==
    /\ tracking
    /\ tracking' = FALSE
    /\ partPositioning' = Release(partPositioning, rotation.current, now)
    /\ rotation' = PositionListener(partPositioning', rotation,
                                    canvasWidth, now)
    /\ tapRun' = IF tapRun >= 0 /\ IsTapGesture(partPositioning, now)
                 THEN tapRun + 1 ELSE -1
    /\ draggedTap' = (draggedTap \/
          (/\ IsTapGesture(partPositioning, now)
           /\ partPositioning.tag = "moving"
           /\ partPositioning.x # partPositioning.startPos))
    /\ UNCHANGED <<now, gestures, canvasWidth, cylinder>>
    /\ UNCHANGED schedVars

-----------------------------------------------------------------------------
(* State after the module has been evaluated, the first loop() call included *)

StartDimensions ==
    [height |-> START_HEIGHT, outerRadius |-> START_OUTER_RADIUS,
     wallThickness |-> START_WALL_THICKNESS,
     closedBottom |-> START_CLOSED_BOTTOM]

InitProgram ==
    /\ now = 0
    /\ modelDimensions = StartDimensions
    /\ animations =
          [d \in Dims |->
              StartAnimationTo(NewAnimate(StartDimensions[d]),
                               StartDimensions[d], FALSE, 0)]
    /\ rotation = StartAnimationTo(NewAnimate(0), 0, FALSE, 0)
    /\ partPositioning = Static(0)
    /\ tracking = FALSE
    /\ gestures = 0
    /\ tapRun = 0
    /\ draggedTap = FALSE
    /\ canvasWidth \in CanvasWidths
    /\ reloadModelNeeded = FALSE
    /\ modelLoadStarted = 0
    /\ centerCameraNeeded = FALSE
    /\ loads = {[seq |-> 1, args |-> TargetArgs(StartDimensions),
                 startedAt |-> 0]}
    /\ mesh = Placeholder
    /\ callCount = 1
    /\ lastStarted = TargetArgs(StartDimensions)
    /\ exportCount = 1
    /\ lastExport = ExportRequest(START_HEIGHT, START_OUTER_RADIUS,
                                  START_WALL_THICKNESS, START_CLOSED_BOTTOM)
    /\ tmfPending = TRUE
    /\ tmf = NoFile
    /\ link = NoFile
    /\ objectURLs = 0
    /\ stuckSeen = FALSE
    /\ anyRejected = FALSE
    /\ changeDuringLoad = FALSE
    /\ callsSinceChange = 1
    /\ targetCalls = 2

Init ==
    /\ InitProgram
    /\ cylinder = Called(TargetArgs(StartDimensions))

\* the frame loop with parameter changes and preview kernel completions
Next ==
    \/ Loop
    \/ HeightInput
    \/ OuterRadiusInput
    \/ ClosedBottomInput
    \/ KernelResolve
    \/ KernelReject

Spec == Init /\ [][Next]_vars

\* the frame loop with changes of height and of the checkbox and preview
\* kernel completions
NextLive ==
    \/ Loop
    \/ HeightInput
    \/ ClosedBottomInput
    \/ KernelResolve
    \/ KernelReject

\* requestAnimationFrame keeps delivering frames: loop re-registers itself
\* first thing on every call
SpecLive == Init /\ [][NextLive]_vars /\ WF_vars(Loop)

\* the frame loop with changes of all four parameters and export completions
NextExport ==
    \/ Loop
    \/ HeightInput
    \/ OuterRadiusInput
    \/ WallThicknessInput
    \/ ClosedBottomInput
    \/ ExportResolve

SpecExport == Init /\ [][NextExport]_vars

\* the user input events on the four controls, any text typed into the
\* number fields (frames leave the target cells alone)
NextInput ==
    \/ HeightChange
    \/ OuterRadiusChange
    \/ WallThicknessChange
    \/ ClosedBottomInput

SpecInput == Init /\ [][NextInput]_vars

\* the frame loop with pointer events
NextGesture ==
    \/ Loop
    \/ ReadyMouse
    \/ TrackMouse
    \/ ForgetMouse

SpecGesture == Init /\ [][NextGesture]_vars

\* one hollowCylinder call, with any of the arguments of the model
InitKernel ==
    /\ InitProgram
    /\ \E h \in KernelHeights, r \in KernelRadii, w \in KernelWalls,
          closed \in BOOLEAN :
          cylinder = Called(KernelArgs(h, r, w, closed))

NextKernel == HollowCylinderReturns

SpecKernel == InitKernel /\ [][NextKernel]_vars

-----------------------------------------------------------------------------
(* Claims about the reload scheduler (specification Spec) *)

\* C1 as stated: at most one preview kernel call is outstanding in every
\* reachable state, calls that take longer than 100ms included.
C1_SingleFlight == Cardinality(loads) <= 1

\* C1, amended: as long as no frame has seen a preview kernel call
\* outstanding for more than 100ms, at most one preview kernel call is
\* outstanding.
C1_SingleFlightUnlessStuck == ~stuckSeen => Cardinality(loads) <= 1

\* a reload is being held back behind the one outstanding call
C1_Witness ==
    /\ ~stuckSeen
    /\ reloadModelNeeded
    /\ Cardinality(loads) = 1
    /\ callCount >= 2

\* C2 as stated: when the latest parameter changes arrived while a call was
\* outstanding, they lead to one additional kernel call, never more.
C2_ExactlyOneMore == (changeDuringLoad /\ ~stuckSeen) => callsSinceChange <= 1

AnimatedValuesChanged ==
    \E d \in Dims : animations'[d].current # animations[d].current

\* C2, amended: a parameter change starts no preview kernel call itself and
\* leaves the scheduler's flag and timestamp alone; preview calls are started
\* by frame ticks only, at most one per tick, only when a reload is needed
\* (flag set, or an animated dimension changed in the tick) and no earlier
\* call is pending within the last 100ms, and with the animated values of
\* that tick; a tick on which a reload is needed and no call is pending
\* always starts one.  Changes that arrive during a call are therefore
\* followed by one call per such tick after the call completed: several
\* while the animation runs, none if no animated value changes.
C2_Coalesced ==
    [][ /\ callCount' <= callCount + 1
        /\ modelDimensions' # modelDimensions =>
              /\ callCount' = callCount
              /\ reloadModelNeeded' = reloadModelNeeded
              /\ modelLoadStarted' = modelLoadStarted
        /\ callCount' = callCount + 1 =>
              /\ now' > now
              /\ reloadModelNeeded \/ AnimatedValuesChanged
              /\ \/ modelLoadStarted = None
                 \/ now' - modelLoadStarted > StuckLoadTimeout
              /\ ~reloadModelNeeded'
              /\ modelLoadStarted' = now'
              /\ \A d \in Dims : lastStarted'[d] = animations'[d].current
        /\ ( /\ now' > now
             /\ modelLoadStarted = None
             /\ reloadModelNeeded \/ AnimatedValuesChanged )
              => callCount' = callCount + 1
      ]_vars

\* changes came during a call, and more than one call followed them
C2_Witness ==
    /\ changeDuringLoad
    /\ ~stuckSeen
    /\ callsSinceChange >= 2

\* C5: a geometry made by an older request is never put on the mesh after
\* the geometry of a request started later.
C5_NoStaleOverwrite == [][mesh'.seq >= mesh.seq]_vars

Settled ==
    /\ \A d \in Dims : ~animations[d].active
    /\ ~reloadModelNeeded

\* C6: once the animations are over, no reload is pending and every started
\* preview call has resolved, the mesh shows the geometry generated for the
\* target height, outerRadius and wallThickness.
C6_Converged ==
    (Settled /\ loads = {} /\ ~anyRejected) =>
        \A d \in Dims : mesh.args[d] = modelDimensions[d]

\* the one change of the C7 scenario has been made: height 50 -> 80
C7_Scenario ==
    /\ exportCount = 2
    /\ TargetArgs(modelDimensions) = KernelArgs(80, 25, 3, TRUE)

\* C7 as stated: after setting height to 80, hollowCylinder has been called
\* exactly once with height 80, outerRadius 25, wallThickness 3, closed.
C7_ExactlyOneCall == (C7_Scenario /\ Settled) => targetCalls = 1

\* C7, amended: setting height to 80 issues exactly one export call with
\* (80, 25, 3, closed) and the filename cylinder-50x80-wall3-closed.3mf, and
\* once the animation is over and no reload is pending exactly one preview
\* call with (80, 25, 3, closed) has been started, the latest one: two
\* hollowCylinder calls with these arguments in all, besides the preview
\* calls made with intermediate animated heights.
C7_OneExportOnePreview ==
    C7_Scenario =>
        /\ lastExport.args = KernelArgs(80, 25, 3, TRUE)
        /\ lastExport.filename = "cylinder-50x80-wall3-closed.3mf"
        /\ targetCalls <= 2
        /\ Settled =>
              /\ targetCalls = 2
              /\ lastStarted = KernelArgs(80, 25, 3, TRUE)

\* the animation is over; a preview call with an intermediate height was made
C7_Witness ==
    /\ C7_Scenario
    /\ Settled
    /\ targetCalls = 2
    /\ callsSinceChange >= 2

-----------------------------------------------------------------------------
(* Claims about failed and stuck preview calls (specification SpecLive) *)

\* the bounds of the model leave room for two more frames and one more call
RoomToReload == now + 400 <= MaxTime /\ callCount <= MaxCalls

\* a numeric target differs from its animated value: its animation is running
NumericChangePending ==
    \E d \in Dims : animations[d].current # modelDimensions[d]

C17_StuckLoadLiveness ==
    /\ [][ ( /\ now' > now
              /\ reloadModelNeeded
              /\ \/ modelLoadStarted = None
                 \/ now' - modelLoadStarted > 100 )
            => /\ callCount' = callCount + 1
               /\ \A d \in Dims : lastStarted'[d] = animations'[d].current
               /\ lastStarted'.closedBottom = modelDimensions.closedBottom
               /\ modelLoadStarted' = now' ]_vars
    /\ [][ (reloadModelNeeded /\ ~reloadModelNeeded') =>
              callCount' = callCount + 1 ]_vars
    /\ \A k \in 1 .. MaxCalls :
          ( /\ reloadModelNeeded
            /\ loads # {}
            /\ callCount = k
            /\ RoomToReload )
          ~> callCount > k

\* a new call was started beside one outstanding for more than 100ms
C17_Witness ==
    /\ stuckSeen
    /\ ~anyRejected
    /\ Cardinality(loads) = 2
    /\ ~reloadModelNeeded

\* C18: once closedBottom has a value that the latest preview call was not
\* started with, a preview call carrying that value is started (unless the
\* checkbox is set back first), and likewise for the numeric parameters.
C18_PreviewFollows ==
    \A b \in BOOLEAN :
        ( /\ modelDimensions.closedBottom = b
          /\ lastStarted.closedBottom # b
          /\ RoomToReload )
        ~> \/ lastStarted.closedBottom = b
           \/ modelDimensions.closedBottom # b

-----------------------------------------------------------------------------
(* Claim about the number fields (specification SpecInput) *)

\* the documented range of a numeric target
Lo(dim) ==
    CASE dim = "height" -> 10
      [] dim = "outerRadius" -> 5
      [] dim = "wallThickness" -> 1

Hi(dim) ==
    CASE dim = "height" -> 200
      [] dim = "outerRadius" -> 100
      [] dim = "wallThickness" -> 20

\* the texts that are numerals, with the number each one writes
Numerals ==
    {<<"-7", -7>>, <<"0", 0>>, <<"12", 12>>, <<"50", 50>>, <<"999", 999>>}

\* the value of the range [lo, hi] nearest to n
NearestInRange(n, lo, hi) == IF n < lo THEN lo ELSE IF n > hi THEN hi ELSE n

\* C12: the three numeric targets are within their ranges in every reachable
\* state; a handler run on a numeral leaves its cell at the value of the
\* range nearest to the number (the number itself when it is in range), and
\* a handler run on a text that is no numeral changes nothing.
C12_TargetsInRange ==
    /\ [](\A d \in Dims : modelDimensions[d] \in Lo(d) .. Hi(d))
    /\ [][ \A d \in Dims : \A text \in Texts :
              NumericInput(d, text, Lo(d), Hi(d)) =>
                 IF \E p \in Numerals : p[1] = text
                 THEN \A p \in Numerals : p[1] = text =>
                         modelDimensions'[d] =
                            NearestInRange(p[2], Lo(d), Hi(d))
                 ELSE modelDimensions' = modelDimensions
          ]_vars

\* the height was clamped from above, the wall thickness from below
C12_Witness ==
    /\ modelDimensions.height = MAX_HEIGHT
    /\ modelDimensions.wallThickness = MIN_WALL_THICKNESS

-----------------------------------------------------------------------------
(* Claim about the geometry kernel (specification SpecKernel) *)

\* C13: every hollowCylinder call returns a solid whose inner circle has the
\* radius outerRadius - wallThickness when that is positive and 0 otherwise:
\* never a negative one, and exactly 0 when wallThickness exceeds
\* outerRadius.
C13_InnerRadiusClamped ==
    cylinder.returned =>
        LET r == cylinder.args.outerRadius
            w == cylinder.args.wallThickness
            inner == cylinder.solid.inner.radius
        IN /\ inner >= 0
           /\ inner >= r - w
           /\ inner = 0 \/ inner = r - w
           /\ w > r => inner = 0

\* a call with a wall thicker than the radius has returned
C13_Witness ==
    /\ cylinder.returned
    /\ cylinder.args.wallThickness > cylinder.args.outerRadius
    /\ cylinder.solid.inner.radius = 0

\* C23: every hollowCylinder call whose arguments lie in the ranges of the
\* controls (height 10..200, outerRadius 5..100, wallThickness 1..20) returns
\* a solid whose inner extrusion has a height above 0 and starts no higher
\* than the top of the outer one.
C23_CavityHeight ==
    ( /\ cylinder.returned
      /\ cylinder.args.height \in MIN_HEIGHT .. MAX_HEIGHT
      /\ cylinder.args.outerRadius \in MIN_OUTER_RADIUS .. MAX_OUTER_RADIUS
      /\ cylinder.args.wallThickness
             \in MIN_WALL_THICKNESS .. MAX_WALL_THICKNESS )
    => /\ cylinder.solid.inner.height > 0
       /\ cylinder.solid.inner.z <= cylinder.solid.outer.height

-----------------------------------------------------------------------------
(* Claim about the export listener (specification SpecExport) *)

\* the name the filename pattern gives for a tuple:
\* cylinder-{diameter}x{height}-wall{wallThickness}-{open|closed}.3mf
PatternName(a) ==
    "cylinder-" \o ToString(a.outerRadius + a.outerRadius) \o "x"
        \o ToString(a.height) \o "-wall" \o ToString(a.wallThickness)
        \o (IF a.closedBottom THEN "-closed" ELSE "-open") \o ".3mf"

C19_AtMostOneLive == objectURLs <= 1

-----------------------------------------------------------------------------
(* Claims about the rotation gesture (specification SpecGesture) *)

\* the horizontal displacement of the gesture so far
Displacement(val) ==
    IF val.tag = "moving" THEN Abs(val.x - val.startPos) ELSE 0

\* this step is a pointer-up that ends a gesture
IsRelease == tracking /\ ~tracking' /\ partPositioning.tag # "static"

\* the position a tap gives from position p
Toggled(p) == IF p = 0 THEN 1 ELSE 0

\* C3: a pointer-up less than 300ms after the pointer-down and less than 15px
\* away from it ends in the static state whose orientation is the toggle of
\* the orientation before the pointer-down, whether or not the gesture went
\* through "moving"; a first tap from orientation 0 gives 1, a second tap 0.
C3_TapToggles ==
    /\ [][ ( /\ IsRelease
             /\ now - partPositioning.clock < 300
             /\ Displacement(partPositioning) < 15 )
           => partPositioning' =
                 Static(Toggled(partPositioning.lastStatic.position)) ]_vars
    /\ [](partPositioning.tag = "static" =>
             /\ tapRun = 1 => partPositioning.position = 1
             /\ tapRun = 2 => partPositioning.position = 0)

\* two taps were made, one of them through "moving"
C3_Witness ==
    /\ tapRun = 2
    /\ draggedTap
    /\ partPositioning = Static(0)

\* p is one of the positions nearest to the rotation value c
Nearest(p, c) ==
    \A q \in {-1, 0, 1} : Abs(p * One - c) <= Abs(q * One - c)

\* C4 as stated: on every pointer-up from will-move or moving the toggle is
\* taken only when less than 300ms have passed and the displacement is below
\* 15px; otherwise the new orientation is the nearest of {-1, 0, 1} to the
\* current rotation.
C4_ReleaseDecision ==
    [][ IsRelease =>
          IF /\ now - partPositioning.clock < 300
             /\ Displacement(partPositioning) < 15
          THEN partPositioning' =
                  Static(Toggled(partPositioning.lastStatic.position))
          ELSE /\ partPositioning'.tag = "static"
               /\ Nearest(partPositioning'.position, rotation.current)
      ]_vars

\* C4, amended: a pointer-up from will-move (no pointer-move since the
\* pointer-down) always takes the toggle, however long the press; a
\* pointer-up from moving takes the toggle only when less than 300ms have
\* passed and the displacement is below 15px, and otherwise gives the nearest
\* of {-1, 0, 1} to the current rotation.
C4_ReleaseByState ==
    [][ IsRelease =>
          IF \/ partPositioning.tag = "will-move"
             \/ /\ now - partPositioning.clock < 300
                /\ Displacement(partPositioning) < 15
          THEN partPositioning' =
                  Static(Toggled(partPositioning.lastStatic.position))
          ELSE /\ partPositioning'.tag = "static"
               /\ Nearest(partPositioning'.position, rotation.current)
      ]_vars

\* the second gesture, a drag, was released onto -1 (only a snap gives -1)
C4_Witness ==
    /\ partPositioning = Static(-1)
    /\ tapRun = -1
    /\ gestures = 2

InGesture(val) == val.tag \in {"will-move", "moving"}

\* C14: in every pending (will-move) or dragging (moving) state lastStatic is
\* a static state with orientation -1, 0 or 1; a step that enters a gesture
\* stores the static state it leaves as lastStatic; and a step from one
\* gesture state to another (a pointer-move, a further pointer-down) keeps
\* lastStatic, the start rotation, the start pixel and the clock.
C14_ReturnTargetPreserved ==
    /\ [](InGesture(partPositioning) =>
             /\ partPositioning.lastStatic.tag = "static"
             /\ partPositioning.lastStatic.position \in {-1, 0, 1})
    /\ [][ (~InGesture(partPositioning) /\ InGesture(partPositioning')) =>
              partPositioning'.lastStatic = partPositioning ]_vars
    /\ [][ (InGesture(partPositioning) /\ InGesture(partPositioning')) =>
              /\ partPositioning'.lastStatic = partPositioning.lastStatic
              /\ partPositioning'.startRot = partPositioning.startRot
              /\ partPositioning'.startPos = partPositioning.startPos
              /\ partPositioning'.clock = partPositioning.clock ]_vars

\* a drag away from the start pixel, in a gesture begun at orientation -1
C14_Witness ==
    /\ partPositioning.tag = "moving"
    /\ partPositioning.x # partPositioning.startPos
    /\ partPositioning.lastStatic = Static(-1)

\* C15: in every reachable state (every handler has finished) the window's
\* move and up listeners are attached exactly when the gesture state is
\* will-move or moving; so every pointer-move and pointer-up the window
\* delivers finds the machine in will-move or moving, never in static.
C15_ListenerLifetime ==
    /\ [](tracking <=> InGesture(partPositioning))
    /\ [][~InGesture(partPositioning) => ~(TrackMouse \/ ForgetMouse)]_vars

\* back in static with the listeners removed, after two gestures
C15_Witness ==
    /\ ~tracking
    /\ partPositioning.tag = "static"
    /\ gestures = 2

\* the toggle rule: -1 -> 0, 0 -> 1, 1 -> 0
TapMap(p) ==
    CASE p = -1 -> 0
      [] p = 0 -> 1
      [] p = 1 -> 0

\* this step is the pointer-up of a tap
IsTap ==
    /\ IsRelease
    /\ now - partPositioning.clock < 300
    /\ Displacement(partPositioning) < 15

\* C16: every static state has orientation -1, 0 or 1; a tap from
\* orientation -1 gives 0, from 0 gives 1, from 1 gives 0; and a step that
\* brings the machine to static orientation -1 is a pointer-up from moving
\* that is no tap (a drag release).
C16_ToggleRule ==
    /\ [](partPositioning.tag = "static" =>
             partPositioning.position \in {-1, 0, 1})
    /\ [][ IsTap =>
              partPositioning' =
                 Static(TapMap(partPositioning.lastStatic.position)) ]_vars
    /\ [][ (partPositioning' = Static(-1) /\ partPositioning # Static(-1)) =>
              /\ IsRelease
              /\ partPositioning.tag = "moving"
              /\ ~IsTap ]_vars

\* the first gesture, a drag, was released onto -1
C16_Witness ==
    /\ partPositioning = Static(-1)
    /\ gestures = 1
    /\ ~tracking

\* C20: a pointer-down whose sampled pixel has r, g, b and a all 0 leaves the
\* gesture state, the listeners and the rotation as they are; and a step
\* that brings the machine into a gesture starts from static, ends in
\* will-move, and is a pointer-down on a pixel that is not fully transparent.
C20_MissIsNoOp ==
    /\ [][ (\E x \in Pixels : ReadyMouseAt(x, <<0, 0, 0, 0>>)) =>
              /\ partPositioning' = partPositioning
              /\ tracking' = tracking
              /\ rotation' = rotation ]_vars
    /\ [][ (~InGesture(partPositioning) /\ InGesture(partPositioning')) =>
              /\ partPositioning.tag = "static"
              /\ partPositioning'.tag = "will-move"
              /\ \E x \in Pixels, color \in Colors \ {<<0, 0, 0, 0>>} :
                    ReadyMouseAt(x, color) ]_vars

\* the first pointer-down that passed the hit test has made the machine
\* pending, with the listeners attached and the rotation where it was
C20_Witness ==
    /\ partPositioning.tag = "will-move"
    /\ partPositioning.lastStatic = Static(0)
    /\ gestures = 1
    /\ tracking
    /\ rotation.current = partPositioning.startRot

\* C21: a step that enters a static state starts an eased animation of the
\* rotation to that state's orientation (the target is the orientation, the
\* current value does not jump, the animation runs); in every moving state
\* the rotation is at the live target of that state, at rest (the push was
\* immediate); and no step that ends in will-move changes the rotation
\* target.
C21_RotationTargetByState ==
    /\ [][ (partPositioning'.tag = "static" /\ partPositioning.tag # "static")
            => /\ rotation'.to = partPositioning'.position * One
               /\ rotation'.current = rotation.current
               /\ rotation'.start = now
               /\ rotation'.active ]_vars
    /\ [](partPositioning.tag = "moving" =>
             /\ rotation.to = LiveTarget(partPositioning, canvasWidth)
             /\ rotation.current = rotation.to
             /\ ~rotation.active)
    /\ [][ partPositioning'.tag = "will-move" =>
              /\ rotation'.to = rotation.to
              /\ partPositioning.tag = "static" => rotation' = rotation ]_vars

\* a drag was released off its orientation and the eased settle is under way
C21_Witness ==
    /\ partPositioning.tag = "static"
    /\ gestures >= 1
    /\ tapRun = -1
    /\ rotation.active
    /\ rotation.current # rotation.to
    /\ rotation.to = partPositioning.position * One

\* C22: in every moving state whose pointer is on the start pixel and whose
\* start rotation lies in [-1, 1], the live target, which is where the
\* rotation has been put, is the start rotation.
C22_DragStartContinuity ==
    ( /\ partPositioning.tag = "moving"
      /\ partPositioning.x = partPositioning.startPos
      /\ partPositioning.startRot \in -One .. One )
    => /\ LiveTarget(partPositioning, canvasWidth) = partPositioning.startRot
       /\ rotation.current = partPositioning.startRot

\* C9: in every moving state whose start rotation lies in [-1, 1], the live
\* rotation target lies in [-1, 1].
C9_LiveTargetInRange ==
    ( /\ partPositioning.tag = "moving"
      /\ partPositioning.startRot \in -One .. One )
    => LiveTarget(partPositioning, canvasWidth) \in -One .. One

\* the moving state with the same start and no displacement
AtStart(val) == [val EXCEPT !.x = val.startPos]

IsFullWidthDrag ==
    /\ partPositioning.tag = "moving"
    /\ Displacement(partPositioning) = canvasWidth

\* C10 as stated: a displacement of exactly the canvas width changes the live
\* target by one unit, modulo the wraparound (a multiple of 2).
C10_OneUnit ==
    IsFullWidthDrag =>
        (LiveTarget(partPositioning, canvasWidth)
           - LiveTarget(AtStart(partPositioning), canvasWidth) - One)
        % (2 * One) = 0

\* C10, amended: a displacement of exactly the canvas width changes the value
\* before wrapping by exactly 2 units, the full width of the range [-1, 1],
\* so that the live target differs from the live target at zero displacement
\* by a multiple of 2 (never by 1).
C10_FullTurn ==
    IsFullWidthDrag =>
        /\ Abs(DragValue(partPositioning, canvasWidth)
                 - DragValue(AtStart(partPositioning), canvasWidth)) = 2 * One
        /\ (LiveTarget(partPositioning, canvasWidth)
              - LiveTarget(AtStart(partPositioning), canvasWidth))
           % (2 * One) = 0

\* a drag to the right by the canvas width, from a start rotation off 0
C10_Witness ==
    /\ IsFullWidthDrag
    /\ partPositioning.x > partPositioning.startPos
    /\ partPositioning.startRot # 0

====
